---- MODULE Spec2Model ----
(***************************************************************************)
(* Model of the video-acquisition and transcript-resolution pipeline of    *)
(* youtube_monitor.py (class YouTubeMonitor), of the Store insert of       *)
(* db_manager.py and of the trigger endpoint of api.py.                    *)
(*                                                                         *)
(* One monitor process is alive at a time.  Its position in check_channels *)
(* is pc; every blocking external call (feed listing, caption lookup,      *)
(* audio download, transcription, summarization, Store insert, write of    *)
(* the processed file) is one step whose outcome is chosen by the          *)
(* environment.  Variables whose names start with run/tot/prev and the     *)
(* variables events, trace, flushed, crashed, digests and feedOut are      *)
(* history variables: the program never reads them.  The variables arg and *)
(* ret hold the input and the result of a function applied on its own      *)
(* (get_latest_videos, the caption stage of get_transcript,                *)
(* _parse_duration, the startup of main, the truncation of                 *)
(* generate_summary).  The variables                                       *)
(* processing_status, requests, tasks and children are the state of the    *)
(* query service and of the requests sent to POST /ingest.                 *)
(***************************************************************************)
EXTENDS Integers, Sequences, FiniteSets, TLC

\* ---------------------------------------------------------------- bounds
MaxBatch == 2      \* longest raw listing a feed returns in the model
MaxEvents == 4     \* runs started + candidates the feeds hand over + crashes
                   \* + failed deletions of a scratch file
MaxFilterBatch == 5   \* longest batch handed to the filter on its own
MaxCount == 3         \* largest count handed to the filter on its own
MaxTracks == 2        \* longest track list of a video in the caption stage on its own
MaxField == 11        \* largest number in a field of a duration string
MaxRequests == 3      \* POST /ingest requests sent to the query service
MaxOver == 12         \* longest second segment of a transcript in the transcript
                      \* branch on its own

\* ------------------------------------------------------ program constants
VideosPerChannel == 3       \* check_channels: get_latest_videos(channel_id, count=3)
MinDescriptionLen == 50     \* generate_summary: len(video['description']) > 50
max_chars == 100000         \* generate_summary: max_chars = 100000

\* ------------------------------------------------------------- the world
None == "<None>"                         \* Python None
MEMBERS_ONLY == "MEMBERS_ONLY"           \* sentinel returned by get_transcript / download_audio
SKIP_MEMBERS_ONLY == "SKIP_MEMBERS_ONLY" \* sentinel returned by generate_summary

Profiles == {"p1", "p2"}

\* profile_config of each profile: ordered feed handles and the strict flag;
\* the second profile also sets the key videos_per_channel
profile_config ==
    [p \in Profiles |->
        IF p = "p1"
        THEN [channels |-> <<"@a", "@b">>, skip_no_transcript |-> FALSE]
        ELSE [channels |-> <<"@a">>,       skip_no_transcript |-> TRUE,
              videos_per_channel |-> 1]]

VideoIds == {"v1", "v2", "v3"}

\* Items a feed may list: id, privacy status, length of the description.
Candidates ==
    { [id |-> "v1", privacyStatus |-> "public",  description |-> 51],
      [id |-> "v2", privacyStatus |-> "public",  description |-> 50],
      [id |-> "v2", privacyStatus |-> "public",  description |-> 0],
      [id |-> "v3", privacyStatus |-> "private", description |-> 51] }

\* Texts a caption track or a transcription can carry.
Texts == {"", MEMBERS_ONLY, "words"}

\* Python truthiness of a str-or-None value
Truthy(x) == x # None /\ x # ""

RECURSIVE SeqsUpTo(_, _)
SeqsUpTo(S, n) ==
    IF n = 0 THEN {<<>>}
    ELSE LET shorter == SeqsUpTo(S, n - 1)
         IN  shorter \cup {Append(s, x) : s \in {t \in shorter : Len(t) = n - 1}, x \in S}

Range(s) == {s[i] : i \in 1..Len(s)}

\* enumerations of a finite set without repetition (list(set) has no fixed order)
Enumerations(S) ==
    {s \in SeqsUpTo(S, Cardinality(S)) : Len(s) = Cardinality(S) /\ Range(s) = S}

Inc(n) == IF n < 2 THEN n + 1 ELSE 2     \* history counters saturate at 2

\* --------------------------------------------------- pure helper functions

FilterVideos_Uncapped(batch, count, valid) ==
    LET public == SelectSeq(batch, LAMBDA item : item.privacyStatus = "public")
    IN  valid \o [i \in 1..Len(public) |->
                    [id |-> public[i].id, description |-> public[i].description]]

\* get_latest_videos, second pass: keep public items in order, stop at count
RECURSIVE FilterVideos(_, _, _)
FilterVideos(batch, count, valid) ==
    IF batch = <<>> \/ Len(valid) >= count THEN valid
    ELSE LET item == Head(batch)
         IN  IF item.privacyStatus # "public"
             THEN FilterVideos(Tail(batch), count, valid)
             ELSE FilterVideos(Tail(batch), count,
                      Append(valid, [id |-> item.id, description |-> item.description]))

get_latest_videos_Partial(raised, listing, count) == FilterVideos(listing, count, <<>>)

\* get_latest_videos: the listing either raises (result []) or is filtered
get_latest_videos(raised, listing, count) ==
    IF raised THEN <<>> ELSE FilterVideos(listing, count, <<>>)

\* Outcome of a caption track fetch: it raises, or returns no segment, or
\* returns segments whose joined text is one of Texts.  An empty track list
\* leaves transcript_data unbound; the NameError is caught by the outer
\* except without a marker, which is the path of three raising fetches.
FetchResults == {"raise", "nodata"} \cup Texts

\* get_transcript, the nested try/except of the three strategies: the first
\* fetch that does not raise decides; transcript_data is None when all raise.
CaptionData(manual, generated, translated) ==
    IF manual # "raise" THEN manual
    ELSE IF generated # "raise" THEN generated
    ELSE IF translated # "raise" THEN translated
    ELSE "nodata"

\* get_transcript, third strategy: for transcript in transcript_list:
\* transcript_data = transcript.translate('en').fetch(); break.  The loop
\* body runs for the first track only; over an empty list nothing is bound.
\* translations: the result of translate('en').fetch() on each listed track.
TranslatedFirst(translations) ==
    IF translations = <<>> THEN "raise" ELSE translations[1]

\* What the caption source answers to one lookup.
\* tracks = "restricted": api.list raises with a members-only marker in its text;
\* tracks = "error": api.list raises without one; tracks = "ok": the track list,
\* with the result of fetching by each of the three strategies (translated:
\* the result of the loop of the third strategy).
CaptionAnswers ==
    [tracks : {"restricted", "error"}, manual : {"raise"}, generated : {"raise"},
     translated : {"raise"}]
    \cup [tracks : {"ok"}, manual : FetchResults, generated : FetchResults,
          translated : FetchResults]

CaptionStage_AudioOnRestricted(answer) ==
    LET transcript_data == CaptionData(answer.manual, answer.generated, answer.translated)
    IN  IF answer.tracks = "ok" /\ transcript_data # "nodata"
        THEN [kind |-> "return", value |-> transcript_data, captions |-> TRUE]
        ELSE [kind |-> "fallback", value |-> None, captions |-> FALSE]

\* get_transcript, first stage: the value it returns (captions: the text came
\* from a caption track), or the fall to the audio stage
CaptionStage(answer) ==
    LET transcript_data == CaptionData(answer.manual, answer.generated, answer.translated)
    IN  IF answer.tracks = "restricted"
        THEN [kind |-> "return", value |-> MEMBERS_ONLY, captions |-> FALSE]
        ELSE IF answer.tracks = "ok" /\ transcript_data # "nodata"
        THEN [kind |-> "return", value |-> transcript_data, captions |-> TRUE]
        ELSE [kind |-> "fallback", value |-> None, captions |-> FALSE]

\* what the caption source gave to the stage: a restriction signal, an error,
\* no segment, or text
CaptionSignal(answer) ==
    IF answer.tracks # "ok" THEN answer.tracks
    ELSE IF CaptionData(answer.manual, answer.generated, answer.translated) = "nodata"
    THEN "nodata"
    ELSE "text"

\* what a download can do: "path": the file was written; "nofile": the
\* download ended and the file is not there; "restricted": it raised with a
\* restriction marker in its text; "error": it raised without one
DownloadResults == {"path", "nofile", "restricted", "error"}

download_audio_NoMarker(result) == IF result = "path" THEN "path" ELSE None

\* download_audio: the value it returns
download_audio(result) ==
    IF result = "path" THEN "path"
    ELSE IF result = "restricted" THEN MEMBERS_ONLY
    ELSE None

\* the lookups get_transcript can make: what the first stage does and what
\* the caption source gave to it, for every answer of the source
CaptionLookups ==
    {[stage |-> CaptionStage(answer), signal |-> CaptionSignal(answer)] :
        answer \in CaptionAnswers}

MethodAfterTranscription_Unset(transcript, last) == last

\* get_transcript: if transcript: self._last_transcript_method = 'audio_transcription'
MethodAfterTranscription(transcript, last) ==
    IF Truthy(transcript) THEN "audio_transcription" ELSE last

\* check_channels: getattr(self, '_last_transcript_method', 'youtube_captions')
TranscriptMethod(last) == IF last = "unset" THEN "youtube_captions" ELSE last

IsMembersOnly_Never(transcript) == FALSE

\* generate_summary: if transcript == "MEMBERS_ONLY"
IsMembersOnly(transcript) == transcript = MEMBERS_ONLY

\* the three ways the code reads the value returned by get_transcript
Outcome(transcript) ==
    IF transcript = MEMBERS_ONLY THEN "RestrictedAccess"
    ELSE IF ~Truthy(transcript) THEN "Unavailable"
    ELSE "Text"

DescriptionUsable_AtLeast(description) == description # 0 /\ description >= MinDescriptionLen

\* generate_summary: if video['description'] and len(video['description']) > 50
DescriptionUsable(description) == description # 0 /\ description > MinDescriptionLen

\* summary texts are sequences of their concatenated parts
LIMITED_INFO == "LIMITED INFO - Transcript not available, summary based on description only"
UNABLE_NOTICE == "Unable to generate detailed summary"
ERROR_NOTICE == "Error generating summary"
Responses == {"response"}

DescriptionSummaryText_Skip(response) ==
    IF response = "raise" THEN <<SKIP_MEMBERS_ONLY>> ELSE <<LIMITED_INFO, response>>

\* generate_summary, description branch: the returned text
DescriptionSummaryText(response) ==
    IF response = "raise" THEN <<UNABLE_NOTICE>> ELSE <<LIMITED_INFO, response>>

FullSummaryText_Skip(response) ==
    IF response = "raise" THEN <<SKIP_MEMBERS_ONLY>> ELSE <<response>>

\* generate_summary, transcript branch: the returned text
FullSummaryText(response) ==
    IF response = "raise" THEN <<ERROR_NOTICE, "e">> ELSE <<response>>

MarkProcessed_Forget(ids, id) == ids

\* self.processed_videos.add(video['id'])
MarkProcessed(ids, id) == ids \cup {id}

\* ------------------------------------------------------------------ Store

HasRow(table, video_id) == \E i \in 1..Len(table) : table[i].video_id = video_id

RowOf(table, video_id) == CHOOSE i \in 1..Len(table) : table[i].video_id = video_id

insert_video_summary_Append(table, video_data, fault) ==
    IF fault THEN [store |-> table, row_id |-> 0, raised |-> FALSE]
    ELSE [store |-> Append(table, video_data), row_id |-> Len(table) + 1,
          raised |-> FALSE]

insert_video_summary_Raise(table, video_data, fault) ==
    [store |-> table, row_id |-> 0, raised |-> TRUE]

insert_video_summary_Replace(table, video_data, fault) ==
    IF fault THEN [store |-> table, row_id |-> 0, raised |-> FALSE]
    ELSE IF HasRow(table, video_data.video_id)
    THEN [store |-> [table EXCEPT ![RowOf(table, video_data.video_id)] = video_data],
          row_id |-> 0, raised |-> FALSE]
    ELSE [store |-> Append(table, video_data), row_id |-> Len(table) + 1,
          raised |-> FALSE]

\* insert_video_summary(video_data) on the videos table (rows in rowid order).
\* fault: an exception other than an IntegrityError (the database cannot be
\* opened or is locked).  An IntegrityError of the UNIQUE constraint on
\* video_id returns None (0); one of a NOT NULL column is raised again.
insert_video_summary(table, video_data, fault) ==
    IF fault THEN [store |-> table, row_id |-> 0, raised |-> FALSE]
    ELSE IF None \in {video_data.video_id, video_data.source_type}
    THEN [store |-> table, row_id |-> 0, raised |-> TRUE]
    ELSE IF HasRow(table, video_data.video_id)
    THEN [store |-> table, row_id |-> 0, raised |-> FALSE]
    ELSE [store |-> Append(table, video_data), row_id |-> Len(table) + 1,
          raised |-> FALSE]

\* ------------------------------------------------------------- durable set

NoFile == <<"<absent>">>

\* the file after open(file, 'w') and before the dump is complete: empty, or
\* the beginning of a JSON list; json.load raises on both
Truncated == <<"<truncated>">>

\* json.load(f) returns
Loadable(f) == f # Truncated

DumpProcessed_Empty(ids) == <<>>

\* _save_processed_videos: json.dump(list(set)); the list holds each id once,
\* in the order the interpreter iterates the set
DumpProcessed(ids) == CHOOSE s \in Enumerations(ids) : TRUE

LoadProcessed_Empty(f) == {}

\* _load_processed_videos: set(json.load(f)), or set() when the file is absent
LoadProcessed(f) == IF f = NoFile THEN {} ELSE Range(f)

\* ------------------------------------------------------------------ state
VARIABLES
    store,            \* rows of the videos table, in rowid order
    file,             \* processed_videos_file of each profile
    pc,               \* position of the monitor process
    prof,             \* profile_name of the running monitor
    processed,        \* self.processed_videos
    method,           \* self._last_transcript_method ("unset": attribute absent)
    ch,               \* index of the channel being handled
    videos,           \* videos of the current channel not yet iterated
    video,            \* the loop variable video
    caller,           \* who called get_transcript: "check" or "summary"
    transcript,       \* value returned by get_transcript
    summary,          \* value returned by generate_summary
    db_data,          \* record handed to insert_video_summary
    row_id,           \* value returned by the last insert (0: None)
    all_summaries,    \* summaries accumulated in this run
    new_videos_found,
    events,           \* runs started, candidates accepted, crashes and failed
                      \* deletions so far
    trace,            \* external calls made for the current video, with outcomes
    runRes, runSum, runIns,   \* per id, this run: resolutions, summarize calls, inserts
    runOutcome,       \* per id, this run: outcome the pipeline acted on
    runStrictSkip,    \* ids dropped by the skip_no_transcript check in this run
    runListed,        \* ids accepted from the feeds in this run
    prevListed,       \* per profile: ids accepted in its last completed run
    flushed,          \* per profile: the set its last completed flush wrote
    totSum, totIns,   \* per profile and id: summarize calls and inserts in all runs
    crashed,          \* per profile: some run of it ended without its flush
    digests,          \* digests emitted in this run, in order
    runFlushes,       \* completed writes of the processed file in this run
    feedOut,          \* how each feed handled in this run answered, in order;
                      \* blanked when a candidate is taken up or the flush begins
    scratch,          \* ids whose audio file the resolution in progress has in the
                      \* scratch directory; followed until the loop body ends
    processing_status,   \* api.py: the module's dict of that name
    requests,         \* per POST /ingest request: not sent yet, or its response
    tasks,            \* per request: state of the background task it added
    children,         \* per request: calls made by the child process of its task
    arg,              \* arguments of the pure function under test
    ret               \* its result, once applied

procVars == <<pc, prof, processed, method, ch, videos, video, caller, transcript,
              summary, db_data, row_id, all_summaries, new_videos_found>>
histVars == <<events, trace, runRes, runSum, runIns, runOutcome, runStrictSkip,
              runListed, prevListed, flushed, totSum, totIns, crashed, digests, runFlushes, feedOut>>
pureVars == <<arg, ret>>
apiVars == <<processing_status, requests, tasks, children>>
vars == <<store, file, scratch, procVars, histVars, pureVars, apiVars>>

NoVideo == [id |-> None, description |-> 0]
NoData == [video_id |-> None, source_type |-> None, summary_text |-> <<>>]
Zero == [v \in VideoIds |-> 0]
NoOutcome == [v \in VideoIds |-> "-"]

NoArg == [fn |-> None]
NoRet == [done |-> FALSE]

Requests == 1..MaxRequests

\* api.py after import: nothing is processing, no request has been sent
ApiInit ==
    /\ processing_status = [is_processing |-> FALSE, last_run |-> 0,
                            last_result |-> [success |-> None]]
    /\ requests = [r \in Requests |-> "unsent"]
    /\ tasks = [r \in Requests |-> "none"]
    /\ children = [r \in Requests |-> <<>>]

\* nothing has run yet: no row, no processed file, no monitor process
MonitorInit ==
    /\ ApiInit
    /\ store = <<>> /\ scratch = {}
    /\ file = [p \in Profiles |-> NoFile]
    /\ pc = "idle" /\ prof = None /\ processed = {} /\ method = "unset"
    /\ ch = 0 /\ videos = <<>> /\ video = NoVideo /\ caller = None
    /\ transcript = None /\ summary = <<>> /\ db_data = NoData /\ row_id = 0
    /\ all_summaries = <<>> /\ new_videos_found = FALSE
    /\ events = 0 /\ trace = <<>>
    /\ runRes = Zero /\ runSum = Zero /\ runIns = Zero
    /\ runOutcome = NoOutcome /\ runStrictSkip = {} /\ runListed = {}
    /\ prevListed = [p \in Profiles |-> {}]
    /\ flushed = [p \in Profiles |-> {}]
    /\ totSum = [p \in Profiles |-> Zero] /\ totIns = [p \in Profiles |-> Zero]
    /\ crashed = [p \in Profiles |-> FALSE]
    /\ digests = <<>> /\ runFlushes = 0 /\ feedOut = <<>>

Init == MonitorInit /\ arg = NoArg /\ ret = NoRet

\* ---------------------------------------------------------------- helpers
Blank(outs) == [i \in 1..Len(outs) |-> "-"]

channels == profile_config[prof].channels

Call(name, out) == [call |-> name, out |-> out]

\* the history of a run ends with its process
ClearRunHistory ==
    /\ runRes' = Zero /\ runSum' = Zero /\ runIns' = Zero
    /\ runOutcome' = NoOutcome /\ runStrictSkip' = {} /\ runListed' = {}
    /\ digests' = <<>> /\ runFlushes' = 0 /\ feedOut' = <<>>

\* locals of check_channels and history of the run, at the start of a run
BeginRun ==
    /\ ch' = 1 /\ videos' = <<>> /\ video' = NoVideo /\ caller' = None
    /\ transcript' = None /\ summary' = <<>> /\ db_data' = NoData /\ row_id' = 0
    /\ all_summaries' = <<>> /\ new_videos_found' = FALSE
    /\ pc' = "channel"
    /\ events' = events + 1 /\ trace' = <<>>
    /\ ClearRunHistory

\* the process ends: everything in memory is lost
EndProcess ==
    /\ pc' = "idle" /\ prof' = None /\ processed' = {} /\ method' = "unset"
    /\ ch' = 0 /\ videos' = <<>> /\ video' = NoVideo /\ caller' = None
    /\ transcript' = None /\ summary' = <<>> /\ db_data' = NoData /\ row_id' = 0
    /\ all_summaries' = <<>> /\ new_videos_found' = FALSE
    /\ trace' = <<>>
    /\ ClearRunHistory

\* `continue` of the video loop, and its end of body
ContinueVideos ==
    /\ pc' = "video" /\ video' = NoVideo /\ caller' = None
    /\ transcript' = None /\ summary' = <<>> /\ trace' = <<>>

\* ----------------------------------------------------------------- actions

\* main(): YouTubeMonitor(profile, config) then check_channels()
StartRun(p) ==
    /\ UNCHANGED <<pureVars, scratch, apiVars>>
    /\ pc = "idle" /\ events < MaxEvents
    /\ Loadable(file[p])
    /\ prof' = p
    /\ processed' = LoadProcessed(file[p])
    /\ method' = "unset"
    /\ BeginRun
    /\ UNCHANGED <<store, file, prevListed, flushed, totSum, totIns, crashed>>

\* main(): _load_processed_videos raises in YouTubeMonitor(profile, config);
\* main reports the error and the process ends before check_channels
StartFails(p) ==
    /\ pc = "idle" /\ events < MaxEvents
    /\ ~Loadable(file[p])
    /\ events' = events + 1
    /\ UNCHANGED <<store, file, procVars, trace, runRes, runSum, runIns, runOutcome,
                   runStrictSkip, runListed, prevListed, flushed, totSum, totIns, crashed,
                   digests, runFlushes, feedOut, pureVars, scratch, apiVars>>

\* run_forever: the same monitor calls check_channels again
RunAgain ==
    /\ UNCHANGED <<pureVars, scratch, apiVars>>
    /\ pc = "done" /\ events < MaxEvents
    /\ BeginRun
    /\ UNCHANGED <<store, file, prof, processed, method, prevListed, flushed, totSum, totIns,
                   crashed>>

\* the process ends after check_channels (--once, check_once.py)
Exit ==
    /\ UNCHANGED <<pureVars, scratch, apiVars>>
    /\ pc = "done"
    /\ EndProcess
    /\ UNCHANGED <<store, file, events, prevListed, flushed, totSum, totIns, crashed>>

\* for channel_config in self.channels: get_channel_id, get_latest_videos.
\* A request or an item of the answer may raise in get_latest_videos: listing
\* is then what was read before, short of the whole answer.
GetChannel ==
    /\ UNCHANGED <<pureVars, scratch, apiVars>>
    /\ pc = "channel" /\ ch <= Len(channels)
    /\ \E channel_id \in {None, "UC"} :
          IF channel_id = None
          THEN /\ ch' = ch + 1
               /\ feedOut' = Append(feedOut, "noid")
               /\ UNCHANGED <<pc, videos, runListed, events>>
          ELSE \E raised \in BOOLEAN :
               \E listing \in SeqsUpTo(Candidates, IF raised THEN MaxBatch - 1 ELSE MaxBatch) :
                  LET found == get_latest_videos(raised, listing, VideosPerChannel)
                  IN  /\ events + Len(found) <= MaxEvents
                      /\ events' = events + Len(found)
                      /\ videos' = found
                      /\ pc' = "video"
                      /\ feedOut' = Append(feedOut, IF raised THEN "raised" ELSE "listed")
                      /\ runListed' = runListed \cup {found[i].id : i \in 1..Len(found)}
                      /\ UNCHANGED ch
    /\ UNCHANGED <<store, file, prof, processed, method, video, caller,
                   transcript, summary, db_data, row_id, all_summaries, new_videos_found,
                   trace, runRes, runSum, runIns, runOutcome,
                   runStrictSkip, prevListed, flushed, totSum, totIns, crashed, digests,
                   runFlushes>>

\* for video in videos: exhausted
VideosDone ==
    /\ UNCHANGED <<pureVars, scratch, apiVars>>
    /\ pc = "video" /\ videos = <<>>
    /\ pc' = "channel" /\ ch' = ch + 1
    /\ UNCHANGED <<store, file, prof, processed, method, videos, video, caller,
                   transcript, summary, db_data, row_id, all_summaries, new_videos_found,
                   histVars>>

\* if video['id'] in self.processed_videos: continue
AlreadyProcessed ==
    /\ UNCHANGED <<pureVars, scratch, apiVars>>
    /\ pc = "video" /\ videos # <<>>
    /\ Head(videos).id \in processed
    /\ videos' = Tail(videos)
    /\ feedOut' = Blank(feedOut)
    /\ UNCHANGED <<store, file, pc, prof, processed, method, ch, video, caller,
                   transcript, summary, db_data, row_id, all_summaries, new_videos_found,
                   events, trace, runRes, runSum, runIns, runOutcome, runStrictSkip,
                   runListed, prevListed, flushed, totSum, totIns, crashed, digests,
                   runFlushes>>

\* a new video: the strict check or generate_summary calls get_transcript
NewVideo ==
    /\ UNCHANGED <<pureVars, scratch, apiVars>>
    /\ pc = "video" /\ videos # <<>>
    /\ Head(videos).id \notin processed
    /\ video' = Head(videos) /\ videos' = Tail(videos)
    /\ new_videos_found' = TRUE
    /\ caller' = IF profile_config[prof].skip_no_transcript THEN "check" ELSE "summary"
    /\ pc' = "captions"
    /\ feedOut' = Blank(feedOut)
    /\ UNCHANGED <<store, file, prof, processed, method, ch,
                   transcript, summary, db_data, row_id, all_summaries,
                   events, trace, runRes, runSum, runIns, runOutcome, runStrictSkip,
                   runListed, prevListed, flushed, totSum, totIns, crashed, digests,
                   runFlushes>>

\* value get_transcript returns to its caller
ReturnTranscript(t) ==
    /\ transcript' = t
    /\ pc' = "returned"

\* get_transcript, first stage: api.list(video_id) and the three strategies
CaptionLookup ==
    /\ UNCHANGED <<pureVars, scratch, apiVars>>
    /\ pc = "captions"
    /\ runRes' = [runRes EXCEPT ![video.id] = Inc(@)]
    /\ \E lookup \in CaptionLookups :
          LET stage == lookup.stage
          IN  /\ trace' = Append(trace, Call("captions", lookup.signal))
              /\ IF stage.kind = "return"
                 THEN /\ ReturnTranscript(stage.value)
                      /\ method' = IF stage.captions THEN "youtube_captions" ELSE method
                 ELSE /\ pc' = "download"
                      /\ UNCHANGED <<method, transcript>>
    /\ UNCHANGED <<store, file, prof, processed, ch, videos, video, caller,
                   summary, db_data, row_id, all_summaries, new_videos_found,
                   events, runSum, runIns, runOutcome, runStrictSkip,
                   runListed, prevListed, flushed, totSum, totIns, crashed, digests, runFlushes, feedOut>>

\* get_transcript, second stage: download_audio(video_id)
DownloadAudio ==
    /\ UNCHANGED <<pureVars, apiVars>>
    /\ pc = "download"
    /\ \E result \in DownloadResults :
          LET audio_path == download_audio(result)
          IN  /\ scratch' = IF result = "path" THEN scratch \cup {video.id} ELSE scratch
              /\ trace' = Append(trace, Call("download", result))
              /\ IF audio_path = MEMBERS_ONLY THEN ReturnTranscript(MEMBERS_ONLY)
                 ELSE IF audio_path = None THEN ReturnTranscript(None)
                 ELSE pc' = "transcribe" /\ UNCHANGED transcript
    /\ UNCHANGED <<store, file, prof, processed, method, ch, videos, video,
                   caller, summary, db_data, row_id, all_summaries, new_videos_found,
                   events, runRes, runSum, runIns, runOutcome, runStrictSkip,
                   runListed, prevListed, flushed, totSum, totIns, crashed, digests, runFlushes, feedOut>>

\* Path(audio_path).unlink() in try/except: pass; raised: the unlink raised
\* and the file stays
unlink(files, id, raised) == IF raised THEN files ELSE files \ {id}

\* get_transcript, third stage: transcribe_audio_with_gemini, unlink, return
TranscribeAudio ==
    /\ UNCHANGED <<pureVars, apiVars>>
    /\ pc = "transcribe"
    /\ \E raised \in BOOLEAN :
          /\ raised => events < MaxEvents
          /\ events' = IF raised THEN events + 1 ELSE events
          /\ scratch' = unlink(scratch, video.id, raised)
    /\ \E t \in Texts \cup {None} :
          /\ trace' = Append(trace, Call("transcribe", IF t = None THEN "raise" ELSE "text"))
          /\ method' = MethodAfterTranscription(t, method)
          /\ ReturnTranscript(t)
    /\ UNCHANGED <<store, file, prof, processed, ch, videos, video,
                   caller, summary, db_data, row_id, all_summaries, new_videos_found,
                   runRes, runSum, runIns, runOutcome, runStrictSkip,
                   runListed, prevListed, flushed, totSum, totIns, crashed, digests, runFlushes, feedOut>>

\* check_channels, skip_no_transcript branch, after its get_transcript call
StrictCheck ==
    /\ UNCHANGED <<pureVars, apiVars>>
    /\ scratch' = {}
    /\ pc = "returned" /\ caller = "check"
    /\ IF ~Truthy(transcript)
       THEN /\ processed' = MarkProcessed(processed, video.id)
            /\ runOutcome' = [runOutcome EXCEPT ![video.id] = Outcome(transcript)]
            /\ runStrictSkip' = runStrictSkip \cup {video.id}
            /\ ContinueVideos
       ELSE /\ caller' = "summary" /\ pc' = "captions"
            /\ transcript' = None /\ trace' = <<>>
            /\ UNCHANGED <<processed, runOutcome, runStrictSkip, video, summary>>
    /\ UNCHANGED <<store, file, prof, method, ch, videos, db_data, row_id,
                   all_summaries, new_videos_found, events, runRes, runSum, runIns,
                   runListed, prevListed, flushed, totSum, totIns, crashed, digests, runFlushes, feedOut>>

\* generate_summary after its get_transcript call, up to the summarizer call
\* or to its return
SummaryDispatch ==
    /\ UNCHANGED <<pureVars, scratch, apiVars>>
    /\ pc = "returned" /\ caller = "summary"
    /\ runOutcome' = [runOutcome EXCEPT ![video.id] = Outcome(transcript)]
    /\ IF IsMembersOnly(transcript)
       THEN summary' = <<SKIP_MEMBERS_ONLY>> /\ pc' = "summarized"
       ELSE IF ~Truthy(transcript)
       THEN IF DescriptionUsable(video.description)
            THEN pc' = "describe" /\ UNCHANGED summary
            ELSE summary' = <<UNABLE_NOTICE>> /\ pc' = "summarized"
       ELSE pc' = "summarize" /\ UNCHANGED summary
    /\ UNCHANGED <<store, file, prof, processed, method, ch, videos, video,
                   caller, transcript, db_data, row_id, all_summaries, new_videos_found,
                   events, trace, runRes, runSum, runIns, runStrictSkip,
                   runListed, prevListed, flushed, totSum, totIns, crashed, digests, runFlushes, feedOut>>

\* the summarizer is called for video.id
CountSummarize ==
    /\ runSum' = [runSum EXCEPT ![video.id] = Inc(@)]
    /\ totSum' = [totSum EXCEPT ![prof][video.id] = Inc(@)]

\* generate_summary: description-based generate_content call
DescriptionSummary ==
    /\ UNCHANGED <<pureVars, scratch, apiVars>>
    /\ pc = "describe"
    /\ CountSummarize
    /\ \E response \in Responses \cup {"raise"} :
          /\ trace' = Append(trace, Call("summarize", IF response = "raise" THEN "raise" ELSE "text"))
          /\ summary' = DescriptionSummaryText(response)
    /\ pc' = "summarized"
    /\ UNCHANGED <<store, file, prof, processed, method, ch, videos, video,
                   caller, transcript, db_data, row_id, all_summaries, new_videos_found,
                   events, runRes, runIns, runOutcome, runStrictSkip,
                   runListed, prevListed, flushed, totIns, crashed, digests, runFlushes, feedOut>>

\* generate_summary: transcript-based generate_content call
FullSummary ==
    /\ UNCHANGED <<pureVars, scratch, apiVars>>
    /\ pc = "summarize"
    /\ CountSummarize
    /\ \E response \in Responses \cup {"raise"} :
          /\ trace' = Append(trace, Call("summarize", IF response = "raise" THEN "raise" ELSE "text"))
          /\ summary' = FullSummaryText(response)
    /\ pc' = "summarized"
    /\ UNCHANGED <<store, file, prof, processed, method, ch, videos, video,
                   caller, transcript, db_data, row_id, all_summaries, new_videos_found,
                   events, runRes, runIns, runOutcome, runStrictSkip,
                   runListed, prevListed, flushed, totIns, crashed, digests, runFlushes, feedOut>>

\* check_channels after generate_summary returned: the members-only skip, or
\* source type, digest entry, mark processed and db_data
Record ==
    /\ UNCHANGED <<pureVars, apiVars>>
    /\ scratch' = IF summary = <<SKIP_MEMBERS_ONLY>> THEN {} ELSE scratch
    /\ pc = "summarized"
    /\ processed' = MarkProcessed(processed, video.id)
    /\ IF summary = <<SKIP_MEMBERS_ONLY>>
       THEN /\ ContinueVideos
            /\ UNCHANGED <<all_summaries, db_data>>
       ELSE /\ all_summaries' = Append(all_summaries, [id |-> video.id, summary |-> summary])
            /\ db_data' = [video_id |-> video.id,
                           source_type |-> TranscriptMethod(method),
                           summary_text |-> summary]
            /\ pc' = "insert"
            /\ UNCHANGED <<video, caller, transcript, summary, trace>>
    /\ UNCHANGED <<store, file, prof, method, ch, videos, row_id,
                   new_videos_found, events, runRes, runSum, runIns, runOutcome,
                   runStrictSkip, runListed, prevListed, flushed, totSum, totIns, crashed, digests, runFlushes, feedOut>>

\* row_id = insert_video_summary(db_data), end of the loop body; an exception
\* the insert raises leaves check_channels and ends the process
Insert ==
    /\ UNCHANGED <<pureVars, apiVars>>
    /\ scratch' = {}
    /\ pc = "insert"
    /\ \E fault \in BOOLEAN :
          LET r == insert_video_summary(store, db_data, fault)
          IN  /\ store' = r.store
              /\ totIns' = [totIns EXCEPT ![prof][video.id] = Inc(@)]
              /\ IF r.raised
                 THEN /\ EndProcess
                      /\ crashed' = [crashed EXCEPT ![prof] = TRUE]
                 ELSE /\ row_id' = r.row_id
                      /\ runIns' = [runIns EXCEPT ![video.id] = Inc(@)]
                      /\ ContinueVideos
                      /\ UNCHANGED <<prof, processed, method, ch, videos, db_data,
                                     all_summaries, new_videos_found, runRes, runSum,
                                     runOutcome, runStrictSkip, runListed, crashed, digests, runFlushes, feedOut>>
    /\ UNCHANGED <<file, events, prevListed, flushed, totSum>>

\* _save_processed_videos, after the last channel: open(file, 'w') creates
\* the file or cuts it to length zero
OpenProcessedFile ==
    /\ UNCHANGED <<pureVars, scratch, apiVars>>
    /\ pc = "channel" /\ ch > Len(channels)
    /\ file' = [file EXCEPT ![prof] = Truncated]
    /\ pc' = "dump"
    /\ feedOut' = Blank(feedOut)
    /\ UNCHANGED <<store, prof, processed, method, ch, videos, video, caller,
                   transcript, summary, db_data, row_id, all_summaries, new_videos_found,
                   events, trace, runRes, runSum, runIns, runOutcome, runStrictSkip,
                   runListed, prevListed, flushed, totSum, totIns, crashed, digests,
                   runFlushes>>

\* _save_processed_videos: json.dump(list(self.processed_videos), f) and the
\* close of the file
SaveProcessed ==
    /\ UNCHANGED <<pureVars, scratch, apiVars>>
    /\ pc = "dump"
    /\ file' = [file EXCEPT ![prof] = DumpProcessed(processed)]
    /\ prevListed' = [prevListed EXCEPT ![prof] = runListed]
    /\ flushed' = [flushed EXCEPT ![prof] = processed]
    /\ runFlushes' = runFlushes + 1
    /\ pc' = "report"
    /\ UNCHANGED <<store, prof, processed, method, ch, videos, video, caller,
                   transcript, summary, db_data, row_id, all_summaries, new_videos_found,
                   events, trace, runRes, runSum, runIns, runOutcome,
                   runStrictSkip, runListed, totSum, totIns, crashed, digests, feedOut>>

ShouldReport_Always(found, summaries) == TRUE

\* if new_videos_found and all_summaries
ShouldReport(found, summaries) == found /\ summaries # <<>>

Digest_Reversed(summaries) ==
    [i \in 1..Len(summaries) |-> summaries[Len(summaries) + 1 - i]]

\* the digest body: ''.join(all_summaries) between a fixed header and footer
Digest(summaries) == summaries

\* end of check_channels: save_to_file and send_email, or nothing
Report ==
    /\ UNCHANGED <<pureVars, scratch, apiVars>>
    /\ pc = "report"
    /\ digests' = IF ShouldReport(new_videos_found, all_summaries)
                  THEN Append(digests, Digest(all_summaries))
                  ELSE digests
    /\ pc' = "done"
    /\ UNCHANGED <<store, file, prof, processed, method, ch, videos, video,
                   caller, transcript, summary, db_data, row_id, all_summaries,
                   new_videos_found, events, trace, runRes, runSum, runIns,
                   runOutcome, runStrictSkip, runListed, prevListed, flushed, totSum,
                   totIns, crashed, runFlushes, feedOut>>

\* the process is killed during check_channels
Crash ==
    /\ UNCHANGED <<pureVars, apiVars>>
    /\ scratch' = {}
    /\ pc \notin {"idle", "done"} /\ events < MaxEvents
    /\ events' = events + 1
    /\ crashed' = [crashed EXCEPT ![prof] = TRUE]
    /\ EndProcess
    /\ UNCHANGED <<store, file, prevListed, flushed, totSum, totIns>>

Next ==
    \/ \E p \in Profiles : StartRun(p)
    \/ \E p \in Profiles : StartFails(p)
    \/ RunAgain
    \/ Exit
    \/ GetChannel
    \/ VideosDone
    \/ AlreadyProcessed
    \/ NewVideo
    \/ CaptionLookup
    \/ DownloadAudio
    \/ TranscribeAudio
    \/ StrictCheck
    \/ SummaryDispatch
    \/ DescriptionSummary
    \/ FullSummary
    \/ Record
    \/ Insert
    \/ OpenProcessedFile
    \/ SaveProcessed
    \/ Report
    \/ Crash

Spec == Init /\ [][Next]_vars

\* ------------------------------------------------- a monitor nobody kills

\* the steps of check_channels: each is a statement of the single thread or a
\* call that returns or raises
RunStep ==
    \/ GetChannel
    \/ VideosDone
    \/ AlreadyProcessed
    \/ NewVideo
    \/ CaptionLookup
    \/ DownloadAudio
    \/ TranscribeAudio
    \/ StrictCheck
    \/ SummaryDispatch
    \/ DescriptionSummary
    \/ FullSummary
    \/ Record
    \/ Insert
    \/ OpenProcessedFile
    \/ SaveProcessed
    \/ Report

NextLive ==
    \/ \E p \in Profiles : StartRun(p)
    \/ RunAgain
    \/ Exit
    \/ RunStep

\* The first profile has completed one run in which no feed listed anything:
\* its processed file holds the empty list.  Nothing runs.
QuietInit ==
    /\ ApiInit
    /\ scratch = {}
    /\ store = <<>>
    /\ file = [p \in Profiles |-> IF p = "p1" THEN DumpProcessed({}) ELSE NoFile]
    /\ pc = "idle" /\ prof = None /\ processed = {} /\ method = "unset"
    /\ ch = 0 /\ videos = <<>> /\ video = NoVideo /\ caller = None
    /\ transcript = None /\ summary = <<>> /\ db_data = NoData /\ row_id = 0
    /\ all_summaries = <<>> /\ new_videos_found = FALSE
    /\ events = 1 /\ trace = <<>>
    /\ runRes = Zero /\ runSum = Zero /\ runIns = Zero
    /\ runOutcome = NoOutcome /\ runStrictSkip = {} /\ runListed = {}
    /\ prevListed = [p \in Profiles |-> {}]
    /\ flushed = [p \in Profiles |-> {}]
    /\ totSum = [p \in Profiles |-> Zero] /\ totIns = [p \in Profiles |-> Zero]
    /\ crashed = [p \in Profiles |-> FALSE]
    /\ digests = <<>> /\ runFlushes = 0 /\ feedOut = <<>>
    /\ arg = NoArg /\ ret = NoRet

\* the thread of a monitor that is not killed keeps executing
SpecLive == QuietInit /\ [][NextLive]_vars /\ WF_vars(RunStep)

\* ------------------------------------------------- restart after a crash

\* the row check_channels stores for a video with captions and a summary
CaptionRow(id) ==
    [video_id |-> id, source_type |-> "youtube_captions", summary_text |-> <<"response">>]

\* The first profile has completed a run that summarized, stored and flushed
\* v1; its next run skipped v1, summarized and stored v2, and was killed
\* before its flush.  Nothing runs; events counts from here.
AfterCrashInit ==
    /\ ApiInit
    /\ scratch = {}
    /\ store = <<CaptionRow("v1"), CaptionRow("v2")>>
    /\ file = [p \in Profiles |-> IF p = "p1" THEN DumpProcessed({"v1"}) ELSE NoFile]
    /\ pc = "idle" /\ prof = None /\ processed = {} /\ method = "unset"
    /\ ch = 0 /\ videos = <<>> /\ video = NoVideo /\ caller = None
    /\ transcript = None /\ summary = <<>> /\ db_data = NoData /\ row_id = 0
    /\ all_summaries = <<>> /\ new_videos_found = FALSE
    /\ events = 0 /\ trace = <<>>
    /\ runRes = Zero /\ runSum = Zero /\ runIns = Zero
    /\ runOutcome = NoOutcome /\ runStrictSkip = {} /\ runListed = {}
    /\ prevListed = [p \in Profiles |-> IF p = "p1" THEN {"v1"} ELSE {}]
    /\ flushed = [p \in Profiles |-> IF p = "p1" THEN {"v1"} ELSE {}]
    /\ totSum = [p \in Profiles |->
                    IF p = "p1" THEN [v \in VideoIds |-> IF v = "v3" THEN 0 ELSE 1]
                    ELSE Zero]
    /\ totIns = [p \in Profiles |->
                    IF p = "p1" THEN [v \in VideoIds |-> IF v = "v3" THEN 0 ELSE 1]
                    ELSE Zero]
    /\ crashed = [p \in Profiles |-> p = "p1"]
    /\ digests = <<>> /\ runFlushes = 0 /\ feedOut = <<>>
    /\ arg = NoArg /\ ret = NoRet

SpecAfterCrash == AfterCrashInit /\ [][Next]_vars

\* ------------------------------------------- get_latest_videos on its own

\* items of the video details answer: id, privacy status, description
FilterItems ==
    [id : {"v1", "v2"}, privacyStatus : {"public", "private", "unlisted"},
     description : {51}]

FilterInit ==
    /\ MonitorInit
    /\ arg \in [fn : {"get_latest_videos"},
                 batch : SeqsUpTo(FilterItems, MaxFilterBatch),
                 count : 0..MaxCount]
    /\ ret = NoRet

\* the second pass of get_latest_videos over the batch, with valid_videos = []
ApplyFilter ==
    /\ arg.fn = "get_latest_videos" /\ ~ret.done
    /\ ret' = [done |-> TRUE, value |-> FilterVideos(arg.batch, arg.count, <<>>)]
    /\ UNCHANGED <<arg, store, file, scratch, procVars, histVars, apiVars>>

FilterNext == ApplyFilter

FilterSpec == FilterInit /\ [][FilterNext]_vars

\* --------------------------------------------- the caption stage on its own

\* the track list of a video: what the fetch of its manual English track and
\* of its generated English track gives ("raise" also when there is none),
\* and what the translation of each listed track gives
TrackLists ==
    [tracks : {"ok"}, manual : FetchResults, generated : FetchResults,
     translations : SeqsUpTo(FetchResults, MaxTracks)]

\* the answer the three strategies get from a track list
StrategyAnswer(list) ==
    [tracks |-> list.tracks, manual |-> list.manual, generated |-> list.generated,
     translated |-> TranslatedFirst(list.translations)]

CaptionInit ==
    /\ MonitorInit
    /\ arg \in [fn : {"get_transcript"}, list : TrackLists]
    /\ ret = NoRet

\* get_transcript up to the return of the caption text or the audio fallback
ApplyCaptionStage ==
    /\ arg.fn = "get_transcript" /\ ~ret.done
    /\ ret' = [done |-> TRUE, value |-> CaptionStage(StrategyAnswer(arg.list))]
    /\ UNCHANGED <<arg, store, file, scratch, procVars, histVars, apiVars>>

CaptionNext == ApplyCaptionStage

CaptionSpec == CaptionInit /\ [][CaptionNext]_vars

\* ------------------------------------------------ _parse_duration on its own

\* strings are sequences of characters
DigitChars == <<"0", "1", "2", "3", "4", "5", "6", "7", "8", "9">>

IsDigit(c) == \E n \in 1..Len(DigitChars) : DigitChars[n] = c

DigitVal(c) == (CHOOSE n \in 1..Len(DigitChars) : DigitChars[n] = c) - 1

\* str(n) of a natural number
RECURSIVE Str(_)
Str(n) == IF n < 10 THEN <<DigitChars[n + 1]>> ELSE Append(Str(n \div 10), DigitChars[(n % 10) + 1])

int_LastDigit(digits) == DigitVal(digits[Len(digits)])

\* int(digits) of a non-empty string of digits
RECURSIVE int(_)
int(digits) ==
    IF Len(digits) = 1 THEN DigitVal(digits[1])
    ELSE 10 * int(SubSeq(digits, 1, Len(digits) - 1)) + DigitVal(digits[Len(digits)])

\* length of the longest run of digits of s that starts at position p (\d+ is greedy)
RECURSIVE DigitsAt(_, _)
DigitsAt(s, p) ==
    IF p <= Len(s) /\ IsDigit(s[p]) THEN 1 + DigitsAt(s, p + 1) ELSE 0

\* (?:(\d+)U)? at position p: the group (<<>>: it did not take part in the
\* match, group(i) is None) and the position after it
MatchField(s, p, unit) ==
    LET n == DigitsAt(s, p)
    IN  IF n > 0 /\ p + n <= Len(s) /\ s[p + n] = unit
        THEN [group |-> SubSeq(s, p, p + n - 1), next |-> p + n + 1]
        ELSE [group |-> <<>>, next |-> p]

\* _parse_duration: re.match of PT(?:(\d+)H)?(?:(\d+)M)?(?:(\d+)S)? at the
\* start of the string (what follows the match is not looked at), 0 without
\* a match, else hours * 3600 + minutes * 60 + seconds
parse_duration(s) ==
    IF Len(s) < 2 \/ s[1] # "P" \/ s[2] # "T" THEN 0
    ELSE LET h == MatchField(s, 3, "H")
             m == MatchField(s, h.next, "M")
             sec == MatchField(s, m.next, "S")
             hours == IF h.group # <<>> THEN int(h.group) ELSE 0
             minutes == IF m.group # <<>> THEN int(m.group) ELSE 0
             seconds == IF sec.group # <<>> THEN int(sec.group) ELSE 0
         IN  hours * 3600 + minutes * 60 + seconds

Absent == -1

\* the three fields of a duration: a number each, or absent
FieldTriples == [H : {Absent} \cup 0..MaxField, M : {Absent} \cup 0..MaxField,
                 S : {Absent} \cup 0..MaxField]

FieldText(n, unit) == IF n = Absent THEN <<>> ELSE Append(Str(n), unit)

\* the strings handed to the parser: PT[nH][nM][nS] as the video details
\* give it, and strings made of the same fields that are not of that form
DurationString(form, f) ==
    LET h == FieldText(f.H, "H")
        m == FieldText(f.M, "M")
        sec == FieldText(f.S, "S")
    IN  CASE form = "PT" -> <<"P", "T">> \o h \o m \o sec
          [] form = "no prefix" -> h \o m \o sec
          [] form = "days" -> <<"P", "1", "D", "T">> \o h \o m \o sec
          [] form = "trailing" -> <<"P", "T">> \o h \o m \o sec \o <<"x">>
          [] form = "reversed" -> <<"P", "T">> \o sec \o m \o h

DurationForms == {"PT", "no prefix", "days", "trailing", "reversed"}

DurationInit ==
    /\ MonitorInit
    /\ \E form \in DurationForms, f \in FieldTriples :
          arg = [fn |-> "_parse_duration", form |-> form, fields |-> f,
                 s |-> DurationString(form, f)]
    /\ ret = NoRet

\* duration_seconds = self._parse_duration(duration_str)
ApplyParseDuration ==
    /\ arg.fn = "_parse_duration" /\ ~ret.done
    /\ ret' = [done |-> TRUE, value |-> parse_duration(arg.s)]
    /\ UNCHANGED <<arg, store, file, scratch, procVars, histVars, apiVars>>

DurationNext == ApplyParseDuration

DurationSpec == DurationInit /\ [][DurationNext]_vars

\* ------------------------------------------------------ startup on its own

Credentials == {"YOUTUBE_API_KEY", "GEMINI_API_KEY", "GMAIL_USER", "GMAIL_APP_PASSWORD"}

RequiredKeys == {"channels", "prompt"}

\* what main() finds: whether profiles/<name>.yaml exists, the keys the
\* profile holds, the environment variables that are set to a non-empty value
Setups ==
    [yaml : BOOLEAN,
     keys : SUBSET (RequiredKeys \cup {"skip_no_transcript"}),
     env : SUBSET (Credentials \cup {"RECIPIENT_EMAIL"})]

\* load_profile: the profile is returned, or SystemExit(1) is raised
ProfileLoads(setup) == setup.yaml /\ RequiredKeys \subseteq setup.keys

CredentialsComplete_ApiKeysOnly(env) == {"YOUTUBE_API_KEY", "GEMINI_API_KEY"} \subseteq env

\* __init__: all([youtube_api_key, gemini_api_key, gmail_user, gmail_app_password])
CredentialsComplete(env) == Credentials \subseteq env

\* main(): the calls made from load_profile on, in order, up to the exception
\* that ends the process or to the call of check_channels
Startup(setup) ==
    IF ~ProfileLoads(setup) THEN <<"load_profile", "SystemExit">>
    ELSE IF ~CredentialsComplete(setup.env)
    THEN <<"load_profile", "output_dir.mkdir", "ValueError">>
    ELSE <<"load_profile", "output_dir.mkdir", "build", "genai.configure",
           "_load_processed_videos", "init_database", "check_channels">>

StartupInit ==
    /\ MonitorInit
    /\ arg \in [fn : {"main"}, setup : Setups]
    /\ ret = NoRet

\* main() up to the end of the process or the call of check_channels
ApplyStartup ==
    /\ arg.fn = "main" /\ ~ret.done
    /\ ret' = [done |-> TRUE, value |-> Startup(arg.setup)]
    /\ UNCHANGED <<arg, store, file, scratch, procVars, histVars, apiVars>>

StartupNext == ApplyStartup

StartupSpec == StartupInit /\ [][StartupNext]_vars

\* ------------------------------------------------ the trigger endpoint

\* run_youtube_monitor: subprocess.run(["python", "check_once.py"], ...)
Argv == <<"python", "check_once.py">>

\* deployments in which check_once.py --profile <name> runs the pipeline
WorkingSetups == {setup \in Setups : ProfileLoads(setup) /\ CredentialsComplete(setup.env)}

\* check_once.py main(): parse_args with --profile required, then startup as
\* in main() of youtube_monitor.py; the calls made and the exit status
check_once(argv, setup) ==
    IF "--profile" \notin Range(argv)
    THEN [calls |-> <<"parse_args", "SystemExit">>, return_code |-> 2]
    ELSE LET calls == <<"parse_args">> \o Startup(setup)
         IN  [calls |-> calls,
              return_code |-> IF calls[Len(calls)] = "check_channels" THEN 0 ELSE 1]

\* POST /ingest: the handler runs without a suspension point; it answers 409
\* when is_processing is set, else adds the background task and answers
\* "started"
Ingest(r) ==
    /\ requests[r] = "unsent"
    /\ IF processing_status.is_processing
       THEN /\ requests' = [requests EXCEPT ![r] = "already_processing"]
            /\ UNCHANGED tasks
       ELSE /\ requests' = [requests EXCEPT ![r] = "started"]
            /\ tasks' = [tasks EXCEPT ![r] = "queued"]
    /\ UNCHANGED <<processing_status, children, store, file, scratch, procVars,
                   histVars, pureVars>>

\* after the response is sent the task starts in a worker thread:
\* run_youtube_monitor sets is_processing and last_run and starts the child
TaskStart(r) ==
    /\ tasks[r] = "queued"
    /\ processing_status' = [processing_status EXCEPT !.is_processing = TRUE,
                                                      !.last_run = r]
    /\ tasks' = [tasks EXCEPT ![r] = "running"]
    /\ UNCHANGED <<requests, children, store, file, scratch, procVars, histVars,
                   pureVars>>

Finally_Skip(status) == status

\* run_youtube_monitor: finally: processing_status["is_processing"] = False
Finally(status) == [status EXCEPT !.is_processing = FALSE]

\* subprocess.run returns or raises; last_result is set; finally:
\* is_processing = False
TaskEnd(r) ==
    /\ tasks[r] = "running"
    /\ \E how \in {"exit", "TimeoutExpired", "Exception"}, setup \in WorkingSetups :
          LET child == check_once(Argv, setup)
          IN  /\ children' = [children EXCEPT ![r] =
                                 IF how = "Exception" THEN <<>> ELSE child.calls]
              /\ processing_status' =
                    Finally([processing_status EXCEPT
                        !.last_result =
                            IF how = "exit"
                            THEN [success |-> child.return_code = 0,
                                  return_code |-> child.return_code]
                            ELSE [success |-> FALSE, error |-> how]])
    /\ tasks' = [tasks EXCEPT ![r] = "finished"]
    /\ UNCHANGED <<requests, store, file, scratch, procVars, histVars, pureVars>>

ApiNext == \E r \in Requests : Ingest(r) \/ TaskStart(r) \/ TaskEnd(r)

ApiSpec == Init /\ [][ApiNext]_vars

\* the server runs every background task it was given, after the response,
\* in a worker thread; subprocess.run returns or raises, after its timeout of
\* 1800 seconds at the latest
ApiLiveSpec ==
    /\ Init /\ [][ApiNext]_vars
    /\ \A r \in Requests : WF_vars(TaskStart(r)) /\ WF_vars(TaskEnd(r))

\* ----------------------------------------- the transcript branch on its own

\* a long string is a sequence of pieces; a piece is the run of characters
\* from..to of a named string
Piece(src, from, to) == [src |-> src, from |-> from, to |-> to]

\* the literal "... [transcript truncated]"
TRUNCATION_MARKER == <<Piece("... [transcript truncated]", 1, 26)>>

\* len(text)
RECURSIVE StrLen(_)
StrLen(text) ==
    IF text = <<>> THEN 0
    ELSE (Head(text).to - Head(text).from + 1) + StrLen(Tail(text))

\* text[:n]
RECURSIVE Take(_, _)
Take(text, n) ==
    IF n <= 0 \/ text = <<>> THEN <<>>
    ELSE LET p == Head(text)
             len == p.to - p.from + 1
         IN  IF len <= n THEN <<p>> \o Take(Tail(text), n - len)
             ELSE <<Piece(p.src, p.from, p.from + n - 1)>>

TooLong_AtLimit(length) == length >= max_chars

\* if len(transcript) > max_chars
TooLong(length) == length > max_chars

\* generate_summary, transcript branch: the value passed to
\* summary_prompt.format as transcript
TranscriptForPrompt(text) ==
    IF TooLong(StrLen(text)) THEN Take(text, max_chars) \o TRUNCATION_MARKER ELSE text

\* lengths of the first segment of a transcript
FirstLens == {0, max_chars - MaxOver, max_chars - 1, max_chars, max_chars + 1}

\* the text of a first segment of x characters followed by that of a second
\* segment of y characters
Joined(x, y) ==
    (IF x = 0 THEN <<>> ELSE <<Piece("first", 1, x)>>)
        \o (IF y = 0 THEN <<>> ELSE <<Piece("second", 1, y)>>)

\* the transcripts that reach the transcript branch: not empty
TranscriptInputs == {Joined(x, y) : x \in FirstLens, y \in 0..MaxOver} \ {<<>>}

TruncateInit ==
    /\ MonitorInit
    /\ arg \in [fn : {"generate_summary"}, transcript : TranscriptInputs]
    /\ ret = NoRet

\* generate_summary from max_chars = 100000 to the call of format
ApplyTruncate ==
    /\ arg.fn = "generate_summary" /\ ~ret.done
    /\ ret' = [done |-> TRUE, value |-> TranscriptForPrompt(arg.transcript)]
    /\ UNCHANGED <<arg, store, file, scratch, procVars, histVars, apiVars>>

TruncateNext == ApplyTruncate

TruncateSpec == TruncateInit /\ [][TruncateNext]_vars

TypeOK ==
    /\ pc \in {"idle", "channel", "video", "captions", "download", "transcribe",
               "returned", "describe", "summarize", "summarized", "insert", "dump", "report",
               "done"}
    /\ processed \subseteq VideoIds
    /\ method \in {"unset", "youtube_captions", "audio_transcription"}
    /\ row_id \in 0..Cardinality(VideoIds)
    /\ events \in 0..MaxEvents

\* ------------------------------------------------------------ properties

\* states in which the running check_channels has not yet written the file
BeforeFlush == pc \notin {"idle", "report", "done"}

\* states between two loop bodies, or after the loops
BetweenVideos == pc \in {"video", "channel", "report", "done"}

Entries(id) == {i \in 1..Len(all_summaries) : all_summaries[i].id = id}

SummarizeFailed == trace # <<>> /\ trace[Len(trace)] = Call("summarize", "raise")

\* the stage that produced the text of the current resolution
ProducedBy(calls) ==
    IF \E i \in 1..Len(calls) : calls[i].call = "transcribe"
    THEN "audio_transcription" ELSE "youtube_captions"

\* C1: as long as no run of a profile ended without its flush, every item id
\* has been passed to the summarizer at most once and handed to the Store
\* insert at most once by that profile, over all its runs and however often
\* the feeds list the id.
C1_AtMostOnce ==
    \A p \in Profiles, id \in VideoIds :
        ~crashed[p] => totSum[p][id] <= 1 /\ totIns[p][id] <= 1

\* a later run of the profile listed again an id summarized and inserted
\* before, and did not touch it
C1_Witness ==
    /\ pc = "done" /\ ~crashed[prof]
    /\ \E id \in runListed :
          /\ totSum[prof][id] = 1 /\ totIns[prof][id] = 1
          /\ runSum[id] = 0 /\ runIns[id] = 0

\* C2: a run whose accepted candidates were all accepted in the last completed
\* (flushed) run of the same profile resolves no transcript, calls the
\* summarizer for nothing and invokes no Store insert.
C2_Idempotent ==
    (BeforeFlush /\ runListed \subseteq prevListed[prof])
        => runRes = Zero /\ runSum = Zero /\ runIns = Zero

\* all feeds of such a second run are handled, and they listed something
C2_Witness ==
    /\ pc = "channel" /\ ch > Len(channels)
    /\ runListed # {} /\ runListed \subseteq prevListed[prof]
    /\ runRes = Zero

StoreUnique(table) ==
    \A i, j \in 1..Len(table) : table[i].video_id = table[j].video_id => i = j

\* C3: the Store never holds two rows with the same video id, and an insert of
\* an id that is already stored changes no row, returns no row id and raises
\* nothing (the loop goes on).
C3_StoreUnique ==
    [][/\ StoreUnique(store')
       /\ (pc = "insert" /\ events' = events /\ HasRow(store, db_data.video_id))
            => (store' = store /\ row_id' = 0 /\ pc' = "video")]_vars

\* an insert was made for an id whose stored row differs from the data handed
\* in, and returned no row id
C3_Witness ==
    /\ pc = "video" /\ row_id = 0
    /\ db_data.video_id \in VideoIds
    /\ runIns[db_data.video_id] = 1
    /\ HasRow(store, db_data.video_id)
    /\ store[RowOf(store, db_data.video_id)] # db_data

\* C4, as claimed: at the end of a run, every id the run handled with an
\* outcome other than RestrictedAccess was handed to the Store insert exactly
\* once.
C4_Original ==
    pc = "done" =>
        \A id \in VideoIds :
            runOutcome[id] \in {"Text", "Unavailable"} => runIns[id] = 1

\* C4, amended: ... every such id that the skip_no_transcript check did not
\* drop was handed to the Store insert exactly once.
C4_ExactlyOneInsert ==
    pc = "done" =>
        \A id \in VideoIds :
            (runOutcome[id] \in {"Text", "Unavailable"} /\ id \notin runStrictSkip)
                => runIns[id] = 1

\* a run ended in which the summarizer failed for an item with a transcript
C4_Witness ==
    /\ pc = "done"
    /\ \E id \in VideoIds :
          /\ runOutcome[id] = "Text" /\ runIns[id] = 1
          /\ \E i \in Entries(id) : all_summaries[i].summary[1] = ERROR_NOTICE

\* C5: an id whose outcome is RestrictedAccess gets no summarizer call, no Store
\* insert and no digest entry, and is in the processed set once its loop body
\* is over.
C5_RestrictedSkipped ==
    \A id \in VideoIds :
        runOutcome[id] = "RestrictedAccess" =>
            /\ runSum[id] = 0 /\ runIns[id] = 0 /\ Entries(id) = {}
            /\ video.id # id => id \in processed

\* a run ended with a restricted id: flushed as processed, nothing to report
C5_Witness ==
    /\ pc = "done" /\ digests = <<>> /\ all_summaries = <<>>
    /\ \E id \in VideoIds :
          /\ runOutcome[id] = "RestrictedAccess"
          /\ id \in LoadProcessed(file[prof])
          /\ ~HasRow(store, id)

\* C6: within one resolution the audio download is called only as the second
\* call, after a caption stage that gave neither text nor a restriction
\* signal; after a restriction signal the resolution is over with
\* MEMBERS_ONLY and no further call.
C6_StageOrder ==
    /\ \A i \in 1..Len(trace) :
          trace[i].call = "download" =>
              /\ i = 2
              /\ trace[1].call = "captions"
              /\ trace[1].out \in {"error", "nodata"}
    /\ (trace # <<>> /\ trace[1] = Call("captions", "restricted"))
          => (Len(trace) = 1 /\ transcript = MEMBERS_ONLY)

\* the caption lookup raised a restriction signal and get_transcript returned
C6_Witness ==
    /\ pc = "returned"
    /\ trace = <<Call("captions", "restricted")>>
    /\ transcript = MEMBERS_ONLY

\* C7, as claimed: the record handed to the Store for an item whose outcome is
\* Unavailable carries the source type descriptionOnly, that is, neither of the
\* two transcript methods.
C7_DescriptionOnly ==
    (pc = "insert" /\ Outcome(transcript) = "Unavailable")
        => db_data.source_type \notin {"youtube_captions", "audio_transcription"}

\* C8: the record handed to the Store for a Text outcome carries the method
\* that produced the text in this resolution; a returned row id is the row
\* holding that record; after the flush every id with a Text outcome was
\* inserted once and is in the durable processed set.
C8_TextSourceType ==
    /\ (pc = "insert" /\ Outcome(transcript) = "Text")
          => db_data.source_type = ProducedBy(trace)
    /\ (pc # "insert" /\ row_id # 0) => store[row_id] = db_data
    /\ pc \in {"report", "done"} =>
          \A id \in VideoIds :
              runOutcome[id] = "Text"
                  => (runIns[id] = 1 /\ id \in LoadProcessed(file[prof]))

\* a run over one candidate with captions and a working summarizer is done
C8_Witness ==
    /\ pc = "done" /\ Len(store) = 1 /\ row_id = 1
    /\ runListed = {store[1].video_id}
    /\ runOutcome[store[1].video_id] = "Text"
    /\ store[1].source_type = "youtube_captions"
    /\ store[1].summary_text \in {<<r>> : r \in Responses}
    /\ store[1].video_id \in LoadProcessed(file[prof])

\* C9: when the summarize call fails for a Text outcome, generate_summary
\* returns the error notice; the id is marked processed and that notice is
\* the body handed to the Store; every error notice of the run's digest was
\* handed to the Store once.
C9_ErrorNotice ==
    /\ (pc \in {"summarized", "insert"} /\ Outcome(transcript) = "Text" /\ SummarizeFailed)
          => summary[1] = ERROR_NOTICE
    /\ (pc = "insert" /\ Outcome(transcript) = "Text" /\ SummarizeFailed)
          => /\ video.id \in processed
             /\ db_data.video_id = video.id
             /\ db_data.summary_text = summary
    /\ BetweenVideos =>
          \A i \in 1..Len(all_summaries) :
              all_summaries[i].summary[1] = ERROR_NOTICE
                  => /\ runIns[all_summaries[i].id] = 1
                     /\ all_summaries[i].id \in processed

\* after an error notice the run went on and handled another candidate
C9_Witness ==
    /\ pc = "done" /\ Len(all_summaries) = 2
    /\ all_summaries[1].summary[1] = ERROR_NOTICE
    /\ HasRow(store, all_summaries[1].id)
    /\ store[RowOf(store, all_summaries[1].id)].summary_text[1] = ERROR_NOTICE
    /\ runIns[all_summaries[2].id] = 1

\* C10: for an Unavailable outcome, a description longer than 50 characters
\* means one summarizer call whose answer, if any, is stored behind the
\* limited-info marker; a description of at most 50 characters (or none)
\* means no summarizer call and the fixed notice.
C10_DescriptionFallback ==
    (pc \in {"summarized", "insert"} /\ Outcome(transcript) = "Unavailable") =>
        /\ IF video.description > 50
           THEN /\ runSum[video.id] = 1
                /\ ~SummarizeFailed =>
                      (Len(summary) = 2 /\ summary[1] = LIMITED_INFO /\ summary[2] \in Responses)
           ELSE /\ runSum[video.id] = 0
                /\ summary = <<UNABLE_NOTICE>>
        /\ pc = "insert" => db_data.summary_text = summary

\* one run stored a description-based summary and a fixed notice
C10_Witness ==
    /\ pc = "done"
    /\ \E i, j \in 1..Len(store) :
          /\ store[i].summary_text[1] = LIMITED_INFO
          /\ runSum[store[i].video_id] = 1 /\ runIns[store[i].video_id] = 1
          /\ store[j].summary_text = <<UNABLE_NOTICE>>
          /\ runSum[store[j].video_id] = 0 /\ runIns[store[j].video_id] = 1

\* ------------------------------------------------- feeds, flush and digest

\* the count a profile asks for: its key videos_per_channel, or 3
ConfiguredCount(p) ==
    IF "videos_per_channel" \in DOMAIN profile_config[p]
    THEN profile_config[p].videos_per_channel
    ELSE 3

\* C12, as claimed: a feed hands at most the profile's count of candidates to
\* the pipeline (at most 3 when the profile sets none).
C12_ConfiguredCount ==
    pc = "video" => Len(videos) <= ConfiguredCount(prof)

\* C13: what a reload of a profile's processed file returns is the set its
\* last completed flush wrote; the running monitor holds all of it, and
\* anything more it holds was marked in the current run.
C13_RoundTrip ==
    /\ \A p \in Profiles : Loadable(file[p]) => LoadProcessed(file[p]) = flushed[p]
    /\ pc # "idle" =>
          /\ flushed[prof] \subseteq processed
          /\ \A id \in processed \ flushed[prof] : runOutcome[id] # "-"

\* a new process of the profile (no transcript method set yet) finds listed
\* an id that an earlier process of the same profile transcribed from audio,
\* stored, marked and flushed; another id is not in its set
C13_Witness ==
    /\ pc = "video" /\ method = "unset" /\ runRes = Zero
    /\ videos # <<>> /\ Head(videos).id \in processed
    /\ HasRow(store, Head(videos).id)
    /\ store[RowOf(store, Head(videos).id)].source_type = "audio_transcription"
    /\ \A p \in Profiles : totIns[p][Head(videos).id] = (IF p = prof THEN 1 ELSE 0)
    /\ processed = LoadProcessed(file[prof])
    /\ \E id \in VideoIds : id \notin processed

\* C14: until its own flush, a run resolves no transcript, calls the
\* summarizer and invokes the Store insert for no id that an earlier flush of
\* the same profile wrote, whatever happened to the id when it was handled.
C14_AttemptOnce ==
    pc \notin {"idle", "report", "done"} =>
        \A id \in flushed[prof] :
            runRes[id] = 0 /\ runSum[id] = 0 /\ runIns[id] = 0

\* all feeds of a run are handled; one of them listed an id that an earlier
\* run had skipped as restricted (never summarized, never stored) and flushed
C14_Witness ==
    /\ pc = "channel" /\ ch > Len(channels)
    /\ \E id \in runListed \cap flushed[prof] :
          /\ totSum[prof][id] = 0 /\ totIns[prof][id] = 0
          /\ ~HasRow(store, id)
          /\ runRes[id] = 0

\* C15: a run has completed no write of the processed file until all its
\* feeds and candidates are handled, and exactly one from then on; that write
\* holds the whole set; no id marked in the run is in the file before; a
\* digest is emitted only after the write.
C15_FlushOnce ==
    /\ runFlushes = (IF pc \in {"report", "done"} THEN 1 ELSE 0)
    /\ pc \in {"dump", "report", "done"} => (ch > Len(channels) /\ videos = <<>>)
    /\ pc \in {"report", "done"} =>
          (Loadable(file[prof]) /\ LoadProcessed(file[prof]) = processed)
    /\ (pc \notin {"idle", "dump", "report", "done"}) =>
          \A id \in VideoIds : runRes[id] > 0 => id \notin LoadProcessed(file[prof])
    /\ digests # <<>> => runFlushes = 1

\* a run that found nothing new has written the file again, with the ids of
\* earlier runs, and emitted no digest
C15_Witness ==
    /\ pc = "done" /\ ~new_videos_found /\ runFlushes = 1
    /\ runListed # {} /\ processed # {}
    /\ LoadProcessed(file[prof]) = processed
    /\ digests = <<>>

\* C16, as claimed: whenever no monitor runs, also after a crash inside a
\* flush, every profile's processed file can be read and holds a set that a
\* completed flush of the profile wrote (the one before, or the new one).
C16_AtomicFlush ==
    pc = "idle" =>
        \A p \in Profiles : Loadable(file[p]) /\ LoadProcessed(file[p]) = flushed[p]

\* C17: until a run begins its flush, the processed file of its profile holds
\* the set the earlier flushes wrote, which is what a crash there leaves; the
\* run resolves none of those ids; only a profile with a crashed run has
\* summarized or inserted an id twice; the Store has one row per id at most.
C17_CrashBeforeFlush ==
    /\ pc \notin {"idle", "dump", "report", "done"} =>
          /\ Loadable(file[prof]) /\ LoadProcessed(file[prof]) = flushed[prof]
          /\ \A id \in flushed[prof] : runRes[id] = 0
          /\ processed \ flushed[prof] \subseteq {id \in VideoIds : runRes[id] > 0}
    /\ \A p \in Profiles, id \in VideoIds :
          (totSum[p][id] > 1 \/ totIns[p][id] > 1) => crashed[p]
    /\ StoreUnique(store)

\* the run after the crash listed v1 and v2: it skipped v1, summarized v2
\* again, its insert of v2 returned no row id and left the two rows, and its
\* flush wrote both ids
C17_Witness ==
    /\ pc = "done" /\ prof = "p1" /\ crashed["p1"]
    /\ runListed = {"v1", "v2"}
    /\ runRes["v1"] = 0 /\ runRes["v2"] = 1
    /\ totSum["p1"]["v2"] = 2 /\ totIns["p1"]["v2"] = 2 /\ runIns["v2"] = 1
    /\ row_id = 0 /\ Len(store) = 2
    /\ LoadProcessed(file["p1"]) = {"v1", "v2"}

\* feeds of the running profile handled so far in this run
FeedsHandled ==
    IF pc = "idle" THEN 0
    ELSE IF pc = "channel" THEN ch - 1
    ELSE IF pc \in {"dump", "report", "done"} THEN Len(channels)
    ELSE ch

\* C18: a feed whose handle resolves to nothing or whose listing raises hands
\* no candidate to the pipeline and the run goes on: every feed before the
\* current one has been handled, all of them when the flush begins, and only
\* listed candidates are ever resolved.
C18_FeedFailure ==
    /\ Len(feedOut) = FeedsHandled
    /\ (feedOut # <<>> /\ feedOut[Len(feedOut)] \in {"noid", "raised"})
          => (videos = <<>> /\ pc \in {"channel", "video"})
    /\ \A id \in VideoIds : runRes[id] > 0 => id \in runListed

\* the listing of the first feed raised; the second feed has been listed and
\* hands a candidate to the pipeline
C18_Witness ==
    /\ pc = "video" /\ ch = 2
    /\ feedOut = <<"raised", "listed">>
    /\ videos # <<>> /\ Head(videos).id \notin processed

\* C19: whatever the feed, caption, download, transcription and summarizer
\* calls answer, a run of a monitor that is not killed reaches the state in
\* which its flush is complete.
C19_NoPropagation ==
    (pc \notin {"idle", "report", "done"}) ~> (pc = "report")

\* the flush of a run is complete in which, for one candidate, no transcript
\* was obtained and the description summarizer call failed, and for another
\* the transcript summarizer call failed
C19_Witness ==
    /\ pc = "report"
    /\ \E i, j \in 1..Len(all_summaries) :
          /\ all_summaries[i].summary = <<UNABLE_NOTICE>>
          /\ runSum[all_summaries[i].id] = 1
          /\ all_summaries[j].summary[1] = ERROR_NOTICE

\* ids for which this run obtained a summary text that is not a skip
Summarized ==
    {id \in VideoIds : runOutcome[id] \in {"Text", "Unavailable"} /\ id \notin runStrictSkip}

\* C20: a run emits no digest before its end and at most one; at its end it
\* has emitted one exactly if it produced a summary that is not a skip, and
\* the digest holds the summary of each such id once, in the order produced.
C20_Digest ==
    /\ Len(digests) <= 1
    /\ pc # "done" => digests = <<>>
    /\ pc = "done" =>
          /\ digests # <<>> <=> Summarized # {}
          /\ digests # <<>> =>
                /\ digests[1] = all_summaries
                /\ {digests[1][i].id : i \in 1..Len(digests[1])} = Summarized
                /\ Len(digests[1]) = Cardinality(Summarized)

\* a run has emitted a digest with the one summary it produced; another
\* candidate of the run was restricted and is not in it
C20_Witness ==
    /\ pc = "done" /\ Len(digests) = 1 /\ Len(digests[1]) = 1
    /\ \E id \in VideoIds :
          /\ runOutcome[id] = "RestrictedAccess"
          /\ id # digests[1][1].id

\* ------------------------------------------------------------ the filter

\* what the filter keeps of an item
Accepted(item) == [id |-> item.id, description |-> item.description]

\* r is made of public items of b, in the order of b
RECURSIVE IsPublicSubsequence(_, _)
IsPublicSubsequence(r, b) ==
    IF r = <<>> THEN TRUE
    ELSE IF b = <<>> THEN FALSE
    ELSE IF Head(b).privacyStatus = "public" /\ Accepted(Head(b)) = Head(r)
    THEN IsPublicSubsequence(Tail(r), Tail(b))
    ELSE IsPublicSubsequence(r, Tail(b))

IsPublic(item) == item.privacyStatus = "public"

\* the first n public items of b
FirstPublic(b, n) ==
    LET public == SelectSeq(b, IsPublic)
        k == IF Len(public) < n THEN Len(public) ELSE n
    IN  [i \in 1..k |-> Accepted(public[i])]

Fetched(r) == r \in Texts

\* what a strategy of the claim fetches from a track list: the manual track,
\* the generated track, some translatable track (the first such one)
StrategyTexts(list) ==
    <<list.manual, list.generated>> \o SelectSeq(list.translations, Fetched)

\* C21, as claimed: whenever a manual English track, a generated English
\* track or the translation of some listed track can be fetched, the caption
\* stage returns the text of the earliest such strategy as caption text and
\* does not fall back to audio.
C21_StrategyOrder ==
    (ret.done /\ arg.fn = "get_transcript") =>
        LET fetched == SelectSeq(StrategyTexts(arg.list), Fetched)
        IN  fetched # <<>> =>
                /\ ret.value.kind = "return"
                /\ ret.value.captions
                /\ ret.value.value = fetched[1]

\* ------------------------------------------------------- the audio fallback

\* the last external call of the current resolution
LastCall == trace[Len(trace)]

DownloadedFile == \E i \in 1..Len(trace) : trace[i] = Call("download", "path")

\* C23, as claimed: when get_transcript returns after a download that wrote
\* its file, the file is no longer in the scratch directory, whether the
\* transcription gave text or failed.
C23_ScratchDeleted ==
    (pc = "returned" /\ DownloadedFile) => video.id \notin scratch

\* ----------------------------------------------------------- no retry

\* C24, as claimed: in a run, under either profile, the caption lookup is
\* made at most once for each candidate.
C24_NoRetry ==
    \A id \in VideoIds : runRes[id] <= 1

\* ------------------------------------------------------- duration parser

Seconds(n) == IF n = Absent THEN 0 ELSE n

\* the strings of the form PT[nH][nM][nS]
WellFormedDurations == {DurationString("PT", f) : f \in FieldTriples}

\* C25: for a string PT[nH][nM][nS], with each field present or absent, the
\* parser returns 3600*H + 60*M + S, absent fields counting 0; the result is
\* not negative.
C25_DurationValue ==
    (ret.done /\ arg.fn = "_parse_duration" /\ arg.form = "PT") =>
        /\ ret.value = 3600 * Seconds(arg.fields.H) + 60 * Seconds(arg.fields.M)
                          + Seconds(arg.fields.S)
        /\ ret.value >= 0

\* PT10H7S, without minutes, has been parsed to 36007
C25_Witness ==
    /\ ret.done /\ arg.fn = "_parse_duration"
    /\ arg.s = <<"P", "T", "1", "0", "H", "7", "S">>
    /\ ret.value = 36007

\* C26, as claimed: for every string that is not of the form PT[nH][nM][nS]
\* the parser returns 0.
C26_MalformedZero ==
    (ret.done /\ arg.fn = "_parse_duration" /\ arg.s \notin WellFormedDurations)
        => ret.value = 0

\* ---------------------------------------------------------------- startup

\* the calls that read or write the processed set, initialize the Store, or
\* run the pipeline (feeds, transcripts, summarizer, Store writes, flush)
PipelineWork == {"_load_processed_videos", "init_database", "check_channels"}

\* C27: when a required credential is missing or the profile lacks channels
\* or prompt, startup ends with an exception before the processed set is
\* read, the Store is initialized, or check_channels is called.
C27_ConfigErrorFatal ==
    (ret.done /\ arg.fn = "main"
        /\ (~(Credentials \subseteq arg.setup.env)
              \/ ~(RequiredKeys \subseteq arg.setup.keys))) =>
        /\ Range(ret.value) \cap PipelineWork = {}
        /\ ret.value[Len(ret.value)] \in {"SystemExit", "ValueError"}

\* with a complete profile and only the mail password missing, startup ended
\* with the ValueError after creating the output directory
C27_Witness ==
    /\ ret.done /\ arg.fn = "main"
    /\ arg.setup.yaml /\ RequiredKeys \subseteq arg.setup.keys
    /\ arg.setup.env = Credentials \ {"GMAIL_APP_PASSWORD"}
    /\ ret.value = <<"load_profile", "output_dir.mkdir", "ValueError">>

\* ------------------------------------------------------- trigger endpoint

\* requests whose run is started and not over
InProgress == {r \in Requests : tasks[r] \in {"queued", "running"}}

\* C28, as claimed: at most one run started by the endpoint is in progress;
\* a request that arrives after another was accepted and before that run
\* has finished is answered 409 and starts none.
C28_BusyGuard ==
    Cardinality(InProgress) <= 1

\* C29, as claimed: once the background task of an accepted request is over
\* and its child process ended by itself, the child has constructed the
\* monitor and called check_channels, and the reported result is its success.
C29_TriggerRuns ==
    \A r \in Requests :
        (tasks[r] = "finished" /\ children[r] # <<>> /\ processing_status.last_run = r
            /\ InProgress = {}
            /\ "return_code" \in DOMAIN processing_status.last_result) =>
            /\ "check_channels" \in Range(children[r])
            /\ processing_status.last_result.success

\* ------------------------------------------------------------ strict flag

\* C30, as claimed: in a run of a profile with skip_no_transcript set, an id
\* dropped by the check is marked processed, has no Store insert and no
\* digest entry, and no record handed to the Store carries a summary made
\* from the description or the fixed notice.
C30_StrictSkip ==
    (pc # "idle" /\ profile_config[prof].skip_no_transcript) =>
        /\ \A id \in runStrictSkip :
              id \in processed /\ runIns[id] = 0 /\ Entries(id) = {}
        /\ pc = "insert" => db_data.summary_text[1] \notin {LIMITED_INFO, UNABLE_NOTICE}

\* ------------------------------------------------------------ sequential order

\* C31: within a run the feeds are handled in the configured order, one at a
\* time (the feed index goes up by one, and only when no candidate of the
\* feed is left or in hand); a candidate is taken up only between two loop
\* bodies, it is the first one not yet iterated of the current feed, and every
\* item resolved before in the run is by then marked and every summary of the
\* run by then handed to the Store; a summary is added to the run's list only
\* at its end and for the item in hand, and the digest is that list.
C31_SequentialOrder ==
    [][/\ (pc \in {"idle", "done"} /\ pc' = "channel") => ch' = 1
       /\ (pc \notin {"idle", "done"} /\ pc' # "idle") =>
             /\ ch' \in {ch, ch + 1}
             /\ ch' = ch + 1 => (video = NoVideo /\ videos = <<>>)
       /\ (pc = "channel" /\ pc' = "video") => (video = NoVideo /\ videos = <<>>)
       /\ (pc = "video" /\ pc' # "idle" /\ videos' # videos) => videos' = Tail(videos)
       /\ (video' # NoVideo /\ video' # video) =>
             /\ pc = "video" /\ video = NoVideo /\ videos # <<>>
             /\ video' = Head(videos) /\ videos' = Tail(videos)
             /\ \A id \in VideoIds : runRes[id] > 0 => id \in processed
             /\ \A i \in 1..Len(all_summaries) : runIns[all_summaries[i].id] >= 1
       /\ (all_summaries' # all_summaries /\ all_summaries' # <<>>) =>
             /\ video # NoVideo
             /\ all_summaries' = Append(all_summaries, [id |-> video.id, summary |-> summary])
       /\ (digests' # digests /\ digests' # <<>>) => digests' = <<all_summaries>>]_vars

\* a run is over whose digest holds the summaries of two different items,
\* both stored
C31_Witness ==
    /\ pc = "done" /\ Len(digests) = 1 /\ Len(digests[1]) = 2
    /\ digests[1][1].id # digests[1][2].id
    /\ runIns[digests[1][1].id] = 1 /\ runIns[digests[1][2].id] = 1
    /\ Len(store) = 2
    /\ store[1].video_id = digests[1][1].id /\ store[2].video_id = digests[1][2].id

\* ------------------------------------------------------------ mark before write

\* C32: when the Store insert is invoked for an item, the record is that of
\* the item in hand and its id is in the in-memory processed set; once the
\* flush of a run is complete, every id for which the run invoked the insert
\* is in the durable processed set of the profile.
C32_MarkBeforeWrite ==
    /\ pc = "insert" => (db_data.video_id = video.id /\ video.id \in processed)
    /\ pc \in {"report", "done"} =>
          \A id \in VideoIds : runIns[id] > 0 => id \in LoadProcessed(file[prof])

\* the insert is about to be invoked for an id the Store does not hold: the
\* id is marked in memory and not yet in the processed file
C32_Witness ==
    /\ pc = "insert" /\ ~HasRow(store, db_data.video_id)
    /\ db_data.video_id \in processed
    /\ Loadable(file[prof]) /\ db_data.video_id \notin LoadProcessed(file[prof])

\* ------------------------------------------------------------ truncation

\* the character at position i of a text: the string it is taken from and its
\* position there
RECURSIVE CharAt(_, _)
CharAt(text, i) ==
    LET p == Head(text)
        len == p.to - p.from + 1
    IN  IF i <= len THEN <<p.src, p.from + i - 1>> ELSE CharAt(Tail(text), i - len)

\* C33: the transcript text interpolated into the prompt is the original text
\* when that has at most 100,000 characters (exactly 100,000 included);
\* otherwise it is the first 100,000 characters of the original, character by
\* character, followed by the truncation marker and nothing else.
C33_Truncation ==
    (ret.done /\ arg.fn = "generate_summary") =>
        IF StrLen(arg.transcript) <= 100000
        THEN ret.value = arg.transcript
        ELSE /\ StrLen(ret.value) = 100000 + 26
             /\ \A i \in 1..100000 : CharAt(ret.value, i) = CharAt(arg.transcript, i)
             /\ \A i \in 1..26 :
                   CharAt(ret.value, 100000 + i) = <<"... [transcript truncated]", i>>

\* a transcript of 100,001 characters in two segments has lost its last
\* character and got the marker
C33_Witness ==
    /\ ret.done /\ arg.fn = "generate_summary"
    /\ Len(arg.transcript) = 2 /\ StrLen(arg.transcript) = 100001
    /\ StrLen(ret.value) = 100026
    /\ CharAt(ret.value, 100000) = CharAt(arg.transcript, 100000)
    /\ CharAt(ret.value, 100001) = <<"... [transcript truncated]", 1>>

\* ------------------------------------------------------------ outcome variants

\* a stage of the current resolution obtained text: a caption fetch returned
\* segments, or the transcription returned a string
ObtainedText ==
    \E i \in 1..Len(trace) :
        trace[i] \in {Call("captions", "text"), Call("transcribe", "text")}

\* C34, as claimed: whenever the caption or the audio stage of the resolution
\* obtained text, whatever the text, the pipeline handles the item as Text:
\* it goes to the transcript summarizer, not to the members-only skip, the
\* description summarizer or the fixed notice.
C34_TextHandledAsText ==
    (pc \in {"describe", "summarize", "summarized", "insert"} /\ ObtainedText)
        => (runOutcome[video.id] = "Text" /\ pc # "describe"
            /\ (pc = "insert" => db_data.summary_text[1] \notin {LIMITED_INFO, UNABLE_NOTICE}))

\* ------------------------------------------------------------ no carry-over

\* the source type a monitor that has handled no item before writes for the
\* item in hand after the resolution recorded in trace: the attribute
\* _last_transcript_method is absent until this resolution sets it
SourceTypeAlone ==
    LET captions == \E i \in 1..Len(trace) : trace[i] = Call("captions", "text")
        transcribed == \E i \in 1..Len(trace) : trace[i] = Call("transcribe", "text")
        last == IF captions THEN "youtube_captions"
                ELSE IF transcribed THEN MethodAfterTranscription(transcript, "unset")
                ELSE "unset"
    IN  TranscriptMethod(last)

\* C35, as claimed: the source type written for an item depends on the item's
\* own resolution only.  Every resolution can be that of the first item of a
\* monitor, so the claim says that the source type handed to the Store is
\* always the one a monitor without earlier items writes after the same
\* resolution.
C35_NoCarryOver ==
    pc = "insert" => db_data.source_type = SourceTypeAlone

\* ------------------------------------------------------------ the set only grows

\* C36: the write that completes a flush stores a superset of the set the
\* last completed flush of the profile stored; whenever a processed file is
\* readable before and after a step, the step has removed no id from it; a
\* monitor starts with the stored set and no step of a living monitor removes
\* an id from its in-memory set.
C36_OnlyGrows ==
    [][/\ (pc = "dump" /\ pc' = "report") =>
             /\ Loadable(file'[prof])
             /\ flushed[prof] \subseteq LoadProcessed(file'[prof])
       /\ \A p \in Profiles :
             (Loadable(file[p]) /\ Loadable(file'[p]))
                 => LoadProcessed(file[p]) \subseteq LoadProcessed(file'[p])
       /\ (pc = "idle" /\ pc' # "idle") => processed' = LoadProcessed(file[prof'])
       /\ (pc # "idle" /\ pc' # "idle") => processed \subseteq processed']_vars

\* a run is over whose flush wrote an id stored by an earlier flush, which
\* the run did not handle, together with an id the run marked
C36_Witness ==
    /\ pc = "done"
    /\ \E old, new \in LoadProcessed(file[prof]) :
          /\ runOutcome[old] = "-" /\ runRes[old] = 0
          /\ runOutcome[new] # "-" /\ runRes[new] > 0

\* ------------------------------------------------------------ profile scoping

\* C37: only a monitor of a profile changes the processed file of that
\* profile, and a monitor starts with the set stored in its own profile's
\* file; so a candidate whose id no flush of the running profile stored and
\* the run has not handled is taken up, whatever other profiles stored; an
\* insert of an id the Store already holds leaves every row as it is.
C37_ProfileScoping ==
    [][/\ \A q \in Profiles : file'[q] # file[q] => (pc # "idle" /\ prof = q)
       /\ (pc = "idle" /\ pc' # "idle") => processed' = LoadProcessed(file[prof'])
       /\ (pc = "video" /\ pc' # "idle" /\ videos # <<>>) =>
             ((Head(videos).id \notin flushed[prof] /\ runOutcome[Head(videos).id] = "-")
                 => (pc' = "captions" /\ video' = Head(videos)))
       /\ (pc = "insert" /\ HasRow(store, db_data.video_id)) => store' = store]_vars

\* a monitor has resolved and summarized an id that another profile had
\* stored and flushed; its insert returned no row id and the row of the other
\* profile, which differs from the record handed in, is still there
C37_Witness ==
    /\ pc = "video" /\ row_id = 0 /\ Len(store) = 1
    /\ db_data.video_id \in VideoIds
    /\ runIns[db_data.video_id] = 1 /\ totIns[prof][db_data.video_id] = 1
    /\ store[1].video_id = db_data.video_id /\ store[1] # db_data
    /\ \E p \in Profiles \ {prof} :
          /\ totIns[p][db_data.video_id] = 1
          /\ Loadable(file[p]) /\ db_data.video_id \in LoadProcessed(file[p])
    /\ db_data.video_id \notin LoadProcessed(file[prof])

\* ------------------------------------------------ description summary failure

\* C38: when no transcript was obtained, the description is longer than 50
\* characters and the description summarizer call failed, generate_summary
\* returns the fixed notice; the item is marked, entered in the run's list and
\* handed to the Store with that notice; and between two loop bodies every
\* such item of the run has been handed to the Store exactly once and is
\* marked.
C38_DescriptionFailure ==
    /\ (pc \in {"summarized", "insert"} /\ Outcome(transcript) = "Unavailable"
            /\ video.description > 50 /\ SummarizeFailed) =>
          /\ summary = <<UNABLE_NOTICE>> /\ runSum[video.id] = 1
          /\ pc = "insert" =>
                /\ video.id \in processed /\ Entries(video.id) # {}
                /\ db_data.video_id = video.id
                /\ db_data.summary_text = <<UNABLE_NOTICE>>
    /\ BetweenVideos =>
          \A i \in 1..Len(all_summaries) :
              (all_summaries[i].summary = <<UNABLE_NOTICE>> /\ runSum[all_summaries[i].id] = 1)
                  => /\ runIns[all_summaries[i].id] = 1
                     /\ all_summaries[i].id \in processed

\* a run is over in which the description summarizer failed for an item: the
\* item is stored with the fixed notice, in the digest and in the flushed set
C38_Witness ==
    /\ pc = "done" /\ Len(digests) = 1
    /\ \E id \in VideoIds :
          /\ runOutcome[id] = "Unavailable" /\ runSum[id] = 1 /\ runIns[id] = 1
          /\ HasRow(store, id)
          /\ store[RowOf(store, id)].summary_text = <<UNABLE_NOTICE>>
          /\ \E i \in 1..Len(digests[1]) :
                digests[1][i] = [id |-> id, summary |-> <<UNABLE_NOTICE>>]
          /\ id \in LoadProcessed(file[prof])

\* ------------------------------------------------------------ the flag is reset

\* C39: every background run that has started comes to its end, however the
\* child ends, and then is_processing is false; the step that ends a run
\* resets the flag and sets last_result to the outcome of that run (success
\* only with exit status 0, else the status or the error); when no run is in
\* progress the flag is false, and a request handled while the flag is false
\* is accepted.
C39_FlagReset ==
    /\ \A r \in Requests :
          (tasks[r] = "running")
              ~> (tasks[r] = "finished" /\ ~processing_status.is_processing)
    /\ [](InProgress = {} => ~processing_status.is_processing)
    /\ [][\A r \in Requests :
             /\ (tasks[r] = "running" /\ tasks'[r] = "finished") =>
                   LET result == processing_status'.last_result
                   IN  /\ ~processing_status'.is_processing
                       /\ result.success \in BOOLEAN
                       /\ IF "return_code" \in DOMAIN result
                          THEN /\ children'[r] # <<>>
                               /\ result.success = (result.return_code = 0)
                               /\ result.success =
                                     (children'[r][Len(children'[r])] = "check_channels")
                          ELSE ~result.success
                               /\ result.error \in {"TimeoutExpired", "Exception"}
             /\ (requests[r] = "unsent" /\ requests'[r] # "unsent"
                     /\ ~processing_status.is_processing)
                   => (requests'[r] = "started" /\ tasks'[r] = "queued")]_vars

\* the run of one request ended by the timeout; the flag is false, last_result
\* holds the timeout and another request has been accepted
C39_Witness ==
    \E r1, r2 \in Requests :
        /\ tasks[r1] = "finished" /\ processing_status.last_run = r1
        /\ ~processing_status.is_processing
        /\ processing_status.last_result = [success |-> FALSE, error |-> "TimeoutExpired"]
        /\ requests[r2] = "started" /\ tasks[r2] = "queued"
        /\ \A r \in Requests \ {r1, r2} : requests[r] = "unsent"

====
